---- MODULE Spec2Model ----
(***************************************************************************)
(* Model of the wave scheduler of the universal infinite-loop MCP server:  *)
(* WaveManager (src/src/orchestration/waveManager.ts), its context ledger  *)
(* (ContextMonitor) and the asynchronous executeWave calls that run        *)
(* batches of worker calls.                                                *)
(*                                                                         *)
(* executeWave is an async function: it runs synchronously up to its first *)
(* await and again between awaits, so each synchronous stretch is one      *)
(* action here (StartWave, ResumeWave), and each worker call's             *)
(* continuation after its own await is one action (WorkerSettle).          *)
(***************************************************************************)
EXTENDS Integers, Sequences, FiniteSets, TLC

(* ------------------------------ bounds --------------------------------- *)

\* Waves created (planned or built by a caller) in one behaviour.
MaxWaves == 2
\* executeWave calls made in one behaviour.
MaxCalls == 2
\* Longest assignment list handed to createAgentBatches on its own.
MaxAssignments == 12
\* Largest maxConcurrency handed to createAgentBatches on its own.
MaxBatchConcurrency == 6

\* coordinateAgents calls made in one behaviour.
MaxCoordinations == 2

(* ------------------------- program constants --------------------------- *)

\* constructor(initialCapacity = 100000); the server constructs WaveManager().
TotalCapacity == 100000
\* estimateContextRequirement: base context per agent.
BaseRequirement == 5000
\* planWave: maxConcurrency: Math.min(waveSize, 5).
ConcurrencyCap == 5

(* ------------------------------ inputs --------------------------------- *)

\* OrchestrationMode values planWave is called with in the concurrent
\* specification. batchSize 0 stands for an absent batchSize: the code reads
\* it as `mode.batchSize || 5`, which treats 0 and undefined alike.
PlanModes ==
    { [type |-> "BATCH",  countInfinite |-> FALSE, count |-> 2, batchSize |-> 0] }

\* existingIterations.length values planWave is called with.
ExistingCounts == {0, 2}

\* The specification the waves of the concurrent specifications are planned
\* for: its innovationDimensions (the other fields do not reach the scheduler).
PlanSpecification ==
    [innovationDimensions |->
        <<"d1", "d2", "d3", "d4", "d5", "d6", "d7", "d8", "d9", "d10", "d11", "d12">>]

\* existingIterations of a given length: iteration j explored dimension j of
\* PlanSpecification.
History(n) ==
    [j \in 1..n |->
        [number |-> j,
         innovationDimensions |-> <<PlanSpecification.innovationDimensions[j]>>]]

\* sophisticationLevel.level values (the schema asks for level >= 1).
Levels == {1, 7}

\* Shapes of the waves a caller of the public executeWave builds itself:
\* number of assignments, maxConcurrency, and the position of an entry of
\* agentAssignments that is null (0: none).
CallerShapes ==
    { [n |-> 2, maxConcurrency |-> 1, nullAt |-> 0],
      [n |-> 2, maxConcurrency |-> 1, nullAt |-> 2] }

\* The waves of the one-call specification: planned ones of 12 assignments
\* (batches of 5, 5 and 2), of 5 (mode INFINITE), of 1 (mode SINGLE) and of
\* none (count already reached), and caller-built ones.
OneCallPlans ==
    { [mode |-> [type |-> "BATCH", countInfinite |-> FALSE, count |-> 12, batchSize |-> 12],
       existingCount |-> 0],
      [mode |-> [type |-> "INFINITE", countInfinite |-> TRUE, count |-> 0, batchSize |-> 0],
       existingCount |-> 1],
      [mode |-> [type |-> "SINGLE", countInfinite |-> FALSE, count |-> 1, batchSize |-> 0],
       existingCount |-> 0],
      [mode |-> [type |-> "BATCH", countInfinite |-> FALSE, count |-> 2, batchSize |-> 0],
       existingCount |-> 2] }

OneCallShapes ==
    { [n |-> 3, maxConcurrency |-> 2, nullAt |-> 0],
      [n |-> 3, maxConcurrency |-> 2, nullAt |-> 1],
      [n |-> 3, maxConcurrency |-> 2, nullAt |-> 3],
      [n |-> 2, maxConcurrency |-> 1, nullAt |-> 2] }

\* capacityThreshold values of a context-monitor request, as exact
\* fractions num / den (the schema asks for 0.1 <= capacityThreshold <= 1.0).
ThresholdFractions ==
    { [num |-> 1, den |-> 10], [num |-> 1, den |-> 2],
      [num |-> 9, den |-> 10], [num |-> 1, den |-> 1] }

(* ------------------------------- state --------------------------------- *)

VARIABLES
    contextMonitor,   \* WaveManager.contextMonitor (the ledger)
    activeWaves,      \* keys of WaveManager.activeWaves
    waves,            \* the GenerationWave objects created so far, by id
    calls,            \* the executeWave calls: position, locals, promises
    probe,            \* input and output of a function applied on its own
    coordinator       \* the AgentCoordinator: its maps and its coordinateAgents calls

vars == <<contextMonitor, activeWaves, waves, calls, probe, coordinator>>

WaveIds == 1..MaxWaves
CallIds == 1..MaxCalls

Min(a, b) == IF a < b THEN a ELSE b
Max(a, b) == IF a > b THEN a ELSE b

RECURSIVE SumSeq(_)
SumSeq(s) == IF s = <<>> THEN 0 ELSE Head(s) + SumSeq(Tail(s))

RECURSIVE Concat(_)
Concat(ss) == IF ss = <<>> THEN <<>> ELSE Head(ss) \o Concat(Tail(ss))

\* Array.prototype.slice(from, to) on a 0-based array, for 0 <= from:
\* the elements at 0-based positions from .. min(to, length) - 1.
Slice(arr, from, to) ==
    SubSeq(arr, from + 1, Min(to, Len(arr)))

(* ----------------------------- the ledger ------------------------------ *)

\* utilizationPercentage = (usedCapacity / totalCapacity) * 100, kept as the
\* exact fraction num / den.
Utilization(used, total) == [num |-> used * 100, den |-> total]

InitialContextMonitor ==
    [ totalCapacity         |-> TotalCapacity,
      usedCapacity          |-> 0,
      waveUsage             |-> <<>>,
      utilizationPercentage |-> Utilization(0, TotalCapacity),
      remainingCapacity     |-> TotalCapacity ]

\* Mutant of UsageOf: the `|| 0` default is missing, so a wave id without a
\* reservation is released as if it held one unit.
UsageOfNoDefault(cm, waveId) ==
    IF waveId \in DOMAIN cm.waveUsage THEN cm.waveUsage[waveId] ELSE 1

\* Map.get(waveId) || 0
UsageOf(cm, waveId) ==
    IF waveId \in DOMAIN cm.waveUsage THEN cm.waveUsage[waveId] ELSE 0

\* Map.set(waveId, usage): a later set for the same key replaces the value.
MapSet(m, key, value) ==
    [k \in (DOMAIN m) \cup {key} |-> IF k = key THEN value ELSE m[k]]

\* Map.delete(waveId)
MapDelete(m, key) ==
    [k \in (DOMAIN m) \ {key} |-> m[k]]

UpdateContextUsage(cm, waveId, usage) ==
    LET used == cm.usedCapacity + usage
    IN  [cm EXCEPT !.waveUsage = MapSet(cm.waveUsage, waveId, usage),
                   !.usedCapacity = used,
                   !.remainingCapacity = cm.totalCapacity - used,
                   !.utilizationPercentage = Utilization(used, cm.totalCapacity)]

\* Mutant of ReleaseContextUsage: the release leaves the derived fields
\* (remainingCapacity, utilizationPercentage) as they were.
ReleaseWithoutDerived(cm, waveId) ==
    [cm EXCEPT !.usedCapacity = cm.usedCapacity - UsageOf(cm, waveId),
               !.waveUsage = MapDelete(cm.waveUsage, waveId)]

ReleaseContextUsage(cm, waveId) ==
    LET used == cm.usedCapacity - UsageOf(cm, waveId)
    IN  [cm EXCEPT !.usedCapacity = used,
                   !.waveUsage = MapDelete(cm.waveUsage, waveId),
                   !.remainingCapacity = cm.totalCapacity - used,
                   !.utilizationPercentage = Utilization(used, cm.totalCapacity)]

\* shouldTriggerGracefulShutdown(threshold):
\* utilizationPercentage >= threshold, with both sides exact fractions.
ShouldTriggerGracefulShutdown(cm, threshold) ==
    cm.utilizationPercentage.num * threshold.den
        >= threshold.num * cm.utilizationPercentage.den

(* ------------------------------ planning ------------------------------- *)

\* Mutant of CalculateWaveSize: the existing iterations are not subtracted
\* from the requested count.
CalculateWaveSizeOfCount(mode, existingCount) ==
    CASE mode.type = "SINGLE" -> 1
      [] mode.type = "BATCH" ->
            IF mode.countInfinite THEN 5
            ELSE Min(mode.count, IF mode.batchSize = 0 THEN 5 ELSE mode.batchSize)
      [] mode.type = "INFINITE" -> 5
      [] OTHER -> 1

CalculateWaveSize(mode, existingCount) ==
    CASE mode.type = "SINGLE" -> 1
      [] mode.type = "BATCH" ->
            IF mode.countInfinite THEN 5
            ELSE Min(mode.count - existingCount,
                     IF mode.batchSize = 0 THEN 5 ELSE mode.batchSize)
      [] mode.type = "INFINITE" -> 5
      [] OTHER -> 1

\* Math.round(waveSize * 5000 * (level * 1.5)); for an integer level the
\* product waveSize * 5000 * level * 3 is even, so the rounding is exact.
EstimateContextRequirement(waveSize, level) ==
    (waveSize * BaseRequirement * (level * 3)) \div 2

\* The value of an array read at an index that is not one of its positions
\* (availableDimensions[NaN] when the array is empty).
Undefined == "undefined"

\* `agent_${crypto.randomUUID().substring(0, 8)}`: the agent id keeps the
\* first eight characters (head) of the UUID drawn and drops the rest (tail).
AgentIdOf(uuid) == uuid.head

\* usedDimensions before the loop: every innovation dimension of every
\* existing iteration.
UsedDimensions(existingIterations) ==
    UNION { { existingIterations[j].innovationDimensions[d] :
                d \in DOMAIN existingIterations[j].innovationDimensions } :
            j \in DOMAIN existingIterations }

\* specification.innovationDimensions.filter(dim => !usedDimensions.has(dim)
\*     || usedDimensions.size >= specification.innovationDimensions.length),
\* over the rest (arr) of an array of the given length.
RECURSIVE FilterDimensions(_, _, _)
FilterDimensions(arr, usedDimensions, length) ==
    IF arr = <<>> THEN <<>>
    ELSE (IF \/ Head(arr) \notin usedDimensions
             \/ Cardinality(usedDimensions) >= length
          THEN <<Head(arr)>> ELSE <<>>)
         \o FilterDimensions(Tail(arr), usedDimensions, length)

\* availableDimensions of one pass of the loop: the dimensions of the
\* specification not used yet, or all of them once usedDimensions holds at
\* least as many values as the specification lists dimensions.
AvailableDimensions(dimensions, usedDimensions) ==
    FilterDimensions(dimensions, usedDimensions, Len(dimensions))

\* innovationFocus = availableDimensions[i % availableDimensions.length]
\* (i is 0-based; the remainder by 0 is NaN and the read gives undefined).
InnovationFocus(availableDimensions, i) ==
    IF availableDimensions = <<>> THEN Undefined
    ELSE availableDimensions[(i % Len(availableDimensions)) + 1]

\* Mutant of IterationNumber: the numbering restarts at 1 in every wave.
IterationNumberFromOne(existingIterations, i) == i + 1

\* iterationNumber = existingIterations.length + i + 1 (i is 0-based)
IterationNumber(existingIterations, i) == Len(existingIterations) + i + 1

\* The loop `for (let i = 0; i < waveSize; i++)` from pass i on: one
\* assignment per pass, with the agent id drawn for it (uuids[i + 1]),
\* iterationNumber existingIterations.length + i + 1 and the dimension
\* selected, which is added to usedDimensions at once.
RECURSIVE AssignmentLoop(_, _, _, _, _, _, _)
AssignmentLoop(specification, waveSize, existingIterations, uuids, i, usedDimensions, assignments) ==
    IF ~(i < waveSize) THEN assignments
    ELSE LET innovationFocus ==
                 InnovationFocus(AvailableDimensions(specification.innovationDimensions,
                                                     usedDimensions), i)
             assignment ==
                 [isNull |-> FALSE, agentId |-> AgentIdOf(uuids[i + 1]),
                  iterationNumber |-> IterationNumber(existingIterations, i),
                  innovationFocus |-> innovationFocus]
         IN  AssignmentLoop(specification, waveSize, existingIterations, uuids, i + 1,
                            usedDimensions \cup {innovationFocus},
                            Append(assignments, assignment))

GenerateAgentAssignments(specification, waveSize, existingIterations, uuids) ==
    AssignmentLoop(specification, waveSize, existingIterations, uuids, 0,
                   UsedDimensions(existingIterations), <<>>)

\* Mutant of WaveConcurrency: the wave runs all its agents at once.
WaveConcurrencyUncapped(waveSize) == waveSize

\* maxConcurrency: Math.min(waveSize, 5)
WaveConcurrency(waveSize) == Min(waveSize, ConcurrencyCap)

\* Math.max(...activeWaves.values().map(w => w.waveNumber), 0) + 1
RECURSIVE MaxWaveNumber(_)
MaxWaveNumber(ids) ==
    IF ids = {} THEN 0
    ELSE LET id == CHOOSE x \in ids : TRUE
         IN  Max(waves[id].waveNumber, MaxWaveNumber(ids \ {id}))

GetNextWaveNumber == MaxWaveNumber(activeWaves) + 1

(* ------------------------------ batching ------------------------------- *)

\* Mutant of BatchLoop: the slice ends one element late, so a batch holds
\* maxConcurrency + 1 assignments and overlaps the next one.
RECURSIVE BatchLoopWideSlice(_, _, _, _)
BatchLoopWideSlice(assignments, maxConcurrency, i, batches) ==
    IF i < Len(assignments)
    THEN BatchLoopWideSlice(assignments, maxConcurrency, i + maxConcurrency,
                   Append(batches, Slice(assignments, i, i + maxConcurrency + 1)))
    ELSE batches

\* Mutant of BatchLoop: the index advances by maxConcurrency + 1, so the
\* assignment after each batch is skipped.
RECURSIVE BatchLoopLongStep(_, _, _, _)
BatchLoopLongStep(assignments, maxConcurrency, i, batches) ==
    IF i < Len(assignments)
    THEN BatchLoopLongStep(assignments, maxConcurrency, i + maxConcurrency + 1,
                   Append(batches, Slice(assignments, i, i + maxConcurrency)))
    ELSE batches

\* The loop `for (i = 0; i < assignments.length; i += maxConcurrency)
\*             batches.push(assignments.slice(i, i + maxConcurrency))`.
RECURSIVE BatchLoop(_, _, _, _)
BatchLoop(assignments, maxConcurrency, i, batches) ==
    IF i < Len(assignments)
    THEN BatchLoop(assignments, maxConcurrency, i + maxConcurrency,
                   Append(batches, Slice(assignments, i, i + maxConcurrency)))
    ELSE batches

CreateAgentBatches(assignments, maxConcurrency) ==
    BatchLoop(assignments, maxConcurrency, 0, <<>>)

\* The loop of createAgentBatches never ends: `i += maxConcurrency` does not
\* move i towards assignments.length, every pass pushes one more (empty)
\* slice, and the array of batches grows until the engine gives up.
BatchLoopDiverges(assignments, maxConcurrency) ==
    Len(assignments) > 0 /\ maxConcurrency <= 0

\* How the engine gives up on the growing array: the process is aborted when
\* the heap is exhausted ("crashed"), or, with a heap large enough for an
\* array of the maximal length, push throws a RangeError ("thrown").
ExhaustionOutcomes == {"crashed", "thrown"}

(* --------------------------- worker results ---------------------------- *)

\* The WaveResult executeAgent returns: from its try block when the worker
\* call went through, from its catch block when it threw.
ExecuteAgentResult(assignment, ok) ==
    [ agentId         |-> assignment.agentId,
      iterationNumber |-> assignment.iterationNumber,
      success         |-> ok,
      hasErrorMessage |-> ~ok ]

\* Mutant of SettleOutcome: executeAgent has no catch block of its own, so
\* a worker call that throws rejects its promise.
SettleOutcomeRethrow(assignment, ok) ==
    IF assignment.isNull \/ ~ok THEN "rejected" ELSE "ok"

\* How the promise of one executeAgent settles: "ok" when the try block
\* returned, "fail" when it threw and the catch block returned a failed
\* WaveResult, "rejected" when the catch block threw as well (it reads
\* assignment.agentId, which throws on a null assignment).
SettleOutcome(assignment, ok) ==
    IF assignment.isNull THEN "rejected"
    ELSE IF ok THEN "ok" ELSE "fail"

\* Mutant of PromiseAllValues: the values of the batch come back in the
\* reverse of the assignment order.
PromiseAllValuesReversed(batch, states) ==
    [p \in 1..Len(batch) |->
        ExecuteAgentResult(batch[Len(batch) + 1 - p],
                           states[Len(batch) + 1 - p] = "ok")]

\* Promise.all(promises) when it fulfils: the values by position in the
\* batch, whatever the order in which the promises settled.
PromiseAllValues(batch, states) ==
    [p \in 1..Len(batch) |-> ExecuteAgentResult(batch[p], states[p] = "ok")]

(* ------------------------------- calls --------------------------------- *)

\* A worker call (one executeAgent promise) is "new" before its batch is
\* dispatched, "pending" from its dispatch to its settling, then "ok" (the
\* try block returned), "fail" (the try block threw, the catch block
\* returned a failed WaveResult) or "rejected" (the catch block itself
\* threw, on a null assignment, so the promise rejected).

IdleCall ==
    [ pc          |-> "idle",     \* idle | awaiting | returned | thrown | crashed
      wave        |-> 0,          \* id of the wave passed to executeWave
      batches     |-> <<>>,       \* const batches
      bi          |-> 0,          \* the batch the for-of loop is at
      results     |-> <<>>,       \* const results (the value returned)
      workers     |-> <<>>,       \* workers[b][p]: the promise of batches[b][p]
      outOfOrder  |-> FALSE,      \* a promise settled before an earlier one of its batch
      usedAtStart |-> 0,          \* usedCapacity when the call was made
      overlapped  |-> FALSE,      \* another call was in progress during it
      hadEntry    |-> FALSE ]     \* waveUsage had the wave's id at its release

InProgress(c) == c.pc = "awaiting"
Exited(c) == c.pc \in {"returned", "thrown"}

\* const promises = batch.map(assignment => this.executeAgent(assignment, wave)):
\* every executeAgent runs up to its own await, so the whole batch is pending.
Dispatch(workers, b) ==
    [workers EXCEPT ![b] = [p \in DOMAIN workers[b] |-> "pending"]]

NoWorkers(batches) ==
    [b \in 1..Len(batches) |-> [p \in 1..Len(batches[b]) |-> "new"]]

(* --------------------------- the coordinator --------------------------- *)

CoordinationIds == 1..MaxCoordinations

\* The assignments coordinateAgents is called with, by their agent ids.
CoordinationInputs == { <<"a1", "a2">>, <<"a2">> }

\* One coordinateAgents call: where it is, its assignments, and for each of
\* them where its executeCoordinatedAgent is: "executing" (at await
\* executeAgent), "finalizing" (at await validateAndFinalizeResult), or
\* fulfilled with a successful ("done") or failed ("failed") WaveResult.
IdleCoordination ==
    [ pc |-> "idle",              \* idle | awaiting | returned
      assignments |-> <<>>,
      stage |-> <<>> ]

\* activeAgents and completedAgents are the Maps of the class; statusSteps
\* is a history of them: the pairs <<from, to>> of every write that replaced
\* the status of an existing entry of activeAgents; progressSteps likewise
\* for the progress of the entry, and entriesWritten are the entries written.
InitialCoordinator ==
    [ activeAgents    |-> <<>>,
      completedAgents |-> <<>>,
      statusSteps     |-> {},
      progressSteps   |-> {},
      entriesWritten  |-> {},
      calls           |-> [c \in CoordinationIds |-> IdleCoordination] ]

\* { ...current, ...updates }: the fields of updates replace those of current.
Spread(current, updates) ==
    [f \in (DOMAIN current) \cup (DOMAIN updates) |->
        IF f \in DOMAIN updates THEN updates[f] ELSE current[f]]

\* activeAgents.set(assignment.agentId, {status: 'ASSIGNED', progress: 0, ...})
TrackAssigned(co, agentId) ==
    [co EXCEPT
        !.activeAgents = MapSet(@, agentId, [status |-> "ASSIGNED", progress |-> 0]),
        !.statusSteps = IF agentId \in DOMAIN co.activeAgents
                        THEN @ \cup {<<co.activeAgents[agentId].status, "ASSIGNED">>}
                        ELSE @,
        !.progressSteps = IF agentId \in DOMAIN co.activeAgents
                          THEN @ \cup {<<co.activeAgents[agentId].progress, 0>>}
                          ELSE @,
        !.entriesWritten = @ \cup {[status |-> "ASSIGNED", progress |-> 0]}]

\* updateAgentProgress(agentId, updates): nothing when the id has no entry.
UpdateAgentProgress(co, agentId, updates) ==
    IF agentId \in DOMAIN co.activeAgents
    THEN [co EXCEPT
            !.activeAgents = MapSet(@, agentId, Spread(co.activeAgents[agentId], updates)),
            !.statusSteps = IF "status" \in DOMAIN updates
                            THEN @ \cup {<<co.activeAgents[agentId].status, updates.status>>}
                            ELSE @,
            !.progressSteps =
                @ \cup {<<co.activeAgents[agentId].progress,
                          Spread(co.activeAgents[agentId], updates).progress>>},
            !.entriesWritten = @ \cup {Spread(co.activeAgents[agentId], updates)}]
    ELSE co

\* areAllAgentsComplete(): this.activeAgents.size === 0
AreAllAgentsComplete(co) == Cardinality(DOMAIN co.activeAgents) = 0

\* values.reduce((sum, v) => sum + v[field], 0) over the values of a Map.
RECURSIVE SumField(_, _, _)
SumField(m, keys, field) ==
    IF keys = {} THEN 0
    ELSE LET k == CHOOSE x \in keys : TRUE
         IN  m[k][field] + SumField(m, keys \ {k}, field)

\* Math.round(sum / n) for sum >= 0 and n > 0: halves round up.
RoundedMean(sum, n) == (2 * sum + n) \div (2 * n)

\* Mutant of AverageProgress: the mean is truncated instead of rounded.
AverageProgressTruncated(co) ==
    IF Cardinality(DOMAIN co.activeAgents) > 0
    THEN SumField(co.activeAgents, DOMAIN co.activeAgents, "progress")
            \div Cardinality(DOMAIN co.activeAgents)
    ELSE 100

\* Math.round(avgProgress): the mean progress of activeAgents, 100 when empty.
AverageProgress(co) ==
    IF Cardinality(DOMAIN co.activeAgents) > 0
    THEN RoundedMean(SumField(co.activeAgents, DOMAIN co.activeAgents, "progress"),
                     Cardinality(DOMAIN co.activeAgents))
    ELSE 100

\* Math.round(avgCompletionTime): the mean completionTime of completedAgents,
\* 0 when empty.
AverageCompletionTime(co) ==
    IF Cardinality(DOMAIN co.completedAgents) > 0
    THEN RoundedMean(SumField(co.completedAgents, DOMAIN co.completedAgents,
                              "completionTime"),
                     Cardinality(DOMAIN co.completedAgents))
    ELSE 0

\* The counts getCoordinationMetrics returns: the sizes of the two Maps and
\* the completed results by their success flag.
AgentCounts(co) ==
    [ totalAgents     |-> Cardinality(DOMAIN co.activeAgents)
                              + Cardinality(DOMAIN co.completedAgents),
      activeAgents    |-> Cardinality(DOMAIN co.activeAgents),
      completedAgents |->
          Cardinality({k \in DOMAIN co.completedAgents : co.completedAgents[k].success}),
      failedAgents    |->
          Cardinality({k \in DOMAIN co.completedAgents : ~co.completedAgents[k].success}) ]

\* getCoordinationMetrics(): the counts and the two averages.
GetCoordinationMetrics(co) ==
    Spread(AgentCounts(co),
           [ averageProgress |-> AverageProgress(co),
             averageCompletionTime |-> AverageCompletionTime(co) ])

\* assignments.forEach(assignment => this.activeAgents.set(...))
RECURSIVE TrackAll(_, _)
TrackAll(co, assignments) ==
    IF assignments = <<>> THEN co
    ELSE TrackAll(TrackAssigned(co, Head(assignments)), Tail(assignments))

\* executeCoordinatedAgent up to its await of executeAgent: STARTING, the
\* prompt, IN_PROGRESS.
StartCoordinatedAgent(co, agentId) ==
    UpdateAgentProgress(
        UpdateAgentProgress(co, agentId, [status |-> "STARTING", progress |-> 5]),
        agentId, [status |-> "IN_PROGRESS", progress |-> 20])

\* assignments.map(assignment => this.executeCoordinatedAgent(...))
RECURSIVE StartAll(_, _)
StartAll(co, assignments) ==
    IF assignments = <<>> THEN co
    ELSE StartAll(StartCoordinatedAgent(co, Head(assignments)), Tail(assignments))

\* results.forEach(result => { completedAgents.set(...); activeAgents.delete(...) })
RECURSIVE StoreResults(_, _)
StoreResults(co, results) ==
    IF results = <<>> THEN co
    ELSE StoreResults(
            [co EXCEPT !.completedAgents = MapSet(@, Head(results).agentId, Head(results)),
                       !.activeAgents = MapDelete(@, Head(results).agentId)],
            Tail(results))

(* ------------------------------ actions -------------------------------- *)

\* No function is being applied on its own.
NoProbe ==
    [fn |-> "none", assignments |-> <<>>, maxConcurrency |-> 0,
     done |-> FALSE, batches |-> <<>>]

Init ==
    /\ contextMonitor = InitialContextMonitor
    /\ activeWaves = {}
    /\ waves = <<>>
    /\ calls = [k \in CallIds |-> IdleCall]
    /\ probe = NoProbe
    /\ coordinator = InitialCoordinator

\* crypto.randomUUID(): the id of the next wave is fresh.
FreshWaveId == Len(waves) + 1

\* The crypto.randomUUID() draws for the agents of a wave, when no two of
\* them start with the same eight characters.
FreshAgentIds(waveId, n) == [i \in 1..Max(n, 0) |-> [head |-> <<waveId, i>>, tail |-> 0]]

\* The GenerationWave planWave builds (waveConfiguration), for the wave id,
\* wave number and agent ids it draws.
PlanWaveConfiguration(waveId, waveNumber, specification, mode, existingIterations, level, uuids) ==
    LET waveSize == CalculateWaveSize(mode, Len(existingIterations))
        contextRequirement == EstimateContextRequirement(waveSize, level)
        agentAssignments ==
            GenerateAgentAssignments(specification, waveSize, existingIterations, uuids)
    IN  [ id               |-> waveId,
          origin           |-> "planWave",
          waveNumber       |-> waveNumber,
          specification    |-> specification,
          sophisticationLevel |-> level,
          existingIterations |-> existingIterations,
          agentAssignments |-> agentAssignments,
          maxConcurrency   |-> WaveConcurrency(waveSize),
          contextBudget    |-> contextRequirement,
          targetIterations |-> waveSize,
          status           |-> "PLANNED",
          hasResults       |-> FALSE,
          results          |-> <<>> ]

\* A GenerationWave built by a caller of the public executeWave instead of
\* by planWave: any maxConcurrency, and possibly a null entry among its
\* assignments (the type is not checked at run time).
CallerBuiltWave(waveId, shape) ==
    [ id               |-> waveId,
      origin           |-> "caller",
      waveNumber       |-> 1,
      specification    |-> PlanSpecification,
      sophisticationLevel |-> 1,
      existingIterations |-> <<>>,
      agentAssignments |->
          [i \in 1..shape.n |->
              [isNull |-> (i = shape.nullAt), agentId |-> <<waveId, i>>,
               iterationNumber |-> i,
               innovationFocus |-> PlanSpecification.innovationDimensions[i]]],
      maxConcurrency   |-> shape.maxConcurrency,
      contextBudget    |-> EstimateContextRequirement(shape.n, 1),
      targetIterations |-> shape.n,
      status           |-> "PLANNED",
      hasResults       |-> FALSE,
      results          |-> <<>> ]

\* A bound on the callers, not on the WaveManager: a caller executes the wave
\* it holds before it plans or builds the next one.
NoneUnexecuted == \A w \in DOMAIN waves : waves[w].status # "PLANNED"

\* Mutant of PlanWaveEffect: planWave registers the wave it plans among the
\* active waves.
PlanWaveRegisters(specification, mode, existingIterations, level, uuids) ==
    /\ waves' = Append(waves, PlanWaveConfiguration(FreshWaveId, GetNextWaveNumber,
                                                    specification, mode,
                                                    existingIterations, level, uuids))
    /\ activeWaves' = activeWaves \cup {FreshWaveId}
    /\ UNCHANGED <<contextMonitor, calls, coordinator>>

\* What one planWave call does to the WaveManager and to the caller: the
\* caller holds a new wave, the WaveManager's fields are not written.
PlanWaveEffect(specification, mode, existingIterations, level, uuids) ==
    /\ waves' = Append(waves, PlanWaveConfiguration(FreshWaveId, GetNextWaveNumber,
                                                    specification, mode,
                                                    existingIterations, level, uuids))
    /\ UNCHANGED <<contextMonitor, activeWaves, calls, coordinator>>

\* planWave(specification, mode, existingIterations, sophisticationLevel, dir)
PlanWave(specification, mode, existingIterations, level) ==
    /\ Len(waves) < MaxWaves
    /\ NoneUnexecuted
    /\ PlanWaveEffect(specification, mode, existingIterations, level,
                      FreshAgentIds(FreshWaveId, MaxAssignments))
    /\ UNCHANGED <<probe, coordinator>>

\* The caller of executeWave builds a wave of its own.
CallerWave(shape) ==
    /\ Len(waves) < MaxWaves
    /\ NoneUnexecuted
    /\ waves' = Append(waves, CallerBuiltWave(FreshWaveId, shape))
    /\ UNCHANGED <<contextMonitor, activeWaves, calls, probe, coordinator>>

\* Mutant of Finally: the release sits at the end of the try block instead
\* of in a finally block, so a call that throws keeps its reservation.
FinallyOnlyOnReturn(cm, waveId, threw) ==
    IF threw THEN cm ELSE ReleaseContextUsage(cm, waveId)

\* The finally block of executeWave: releaseContextUsage(wave.id), whether
\* the try block returned or the catch block rethrew (threw).
Finally(cm, waveId, threw) == ReleaseContextUsage(cm, waveId)

\* Every call in progress other than k learns that a call overlapped it.
MarkOverlap(cs, k) ==
    [j \in CallIds |->
        IF j # k /\ InProgress(cs[j]) THEN [cs[j] EXCEPT !.overlapped = TRUE]
        ELSE cs[j]]

\* executeWave(wave), from its entry to its first await (the Promise.all of
\* the first batch), or to its return when the wave has no assignments; ws
\* are the waves created so far, the one passed in among them.
ExecuteWaveEntry(k, w, ws) ==
    /\ calls[k].pc = "idle"
    /\ \A j \in CallIds : j < k => calls[j].pc \notin {"idle", "crashed"}
    /\ LET wave == ws[w]
           reserved == UpdateContextUsage(contextMonitor, wave.id, wave.contextBudget)
           batches == CreateAgentBatches(wave.agentAssignments, wave.maxConcurrency)
           others == \E j \in CallIds : j # k /\ InProgress(calls[j])
           started ==
               [IdleCall EXCEPT !.wave = w, !.batches = batches,
                                !.workers = NoWorkers(batches),
                                !.usedAtStart = contextMonitor.usedCapacity,
                                !.overlapped = others]
       IN  IF BatchLoopDiverges(wave.agentAssignments, wave.maxConcurrency)
           THEN \* createAgentBatches never returns: the process dies in it, or
                \* its RangeError reaches the catch block (FAILED) and finally
                \E outcome \in ExhaustionOutcomes :
                    IF outcome = "crashed"
                    THEN /\ waves' = [ws EXCEPT ![w].status = "IN_PROGRESS"]
                         /\ contextMonitor' = reserved
                         /\ activeWaves' = activeWaves \cup {wave.id}
                         /\ calls' = [calls EXCEPT ![k] =
                                         [IdleCall EXCEPT !.pc = "crashed", !.wave = w,
                                             !.usedAtStart = contextMonitor.usedCapacity,
                                             !.overlapped = others]]
                    ELSE /\ waves' = [ws EXCEPT ![w].status = "FAILED"]
                         /\ contextMonitor' = Finally(reserved, wave.id, TRUE)
                         /\ activeWaves' = activeWaves \ {wave.id}
                         /\ calls' = [calls EXCEPT ![k] =
                                         [IdleCall EXCEPT !.pc = "thrown", !.wave = w,
                                             !.usedAtStart = contextMonitor.usedCapacity,
                                             !.overlapped = others,
                                             !.hadEntry = TRUE]]
           ELSE IF batches = <<>>
           THEN \* the for-of loop has nothing to run: COMPLETED, then finally
                /\ waves' = [ws EXCEPT ![w].status = "COMPLETED",
                                       ![w].hasResults = TRUE,
                                       ![w].results = <<>>]
                /\ contextMonitor' = Finally(reserved, wave.id, FALSE)
                /\ activeWaves' = activeWaves \ {wave.id}
                /\ calls' = [MarkOverlap(calls, k) EXCEPT ![k] =
                                [started EXCEPT !.pc = "returned",
                                                !.hadEntry = TRUE]]
           ELSE /\ waves' = [ws EXCEPT ![w].status = "IN_PROGRESS"]
                /\ contextMonitor' = reserved
                /\ activeWaves' = activeWaves \cup {wave.id}
                /\ calls' = [MarkOverlap(calls, k) EXCEPT ![k] =
                                [started EXCEPT !.pc = "awaiting", !.bi = 1,
                                                !.workers = Dispatch(started.workers, 1)]]

\* A caller holding wave w calls executeWave(wave).
StartWave(k, w) ==
    /\ w \in DOMAIN waves
    /\ ExecuteWaveEntry(k, w, waves)
    /\ UNCHANGED <<probe, coordinator>>

\* The continuation of one executeAgent after its await: the try block
\* returns a successful WaveResult (ok), or throws and the catch block
\* returns a failed one; on a null assignment the catch block throws too
\* (it reads assignment.agentId) and the promise rejects.
WorkerSettle(k, b, p, ok) ==
    /\ calls[k].pc # "idle"
    /\ b \in DOMAIN calls[k].workers
    /\ p \in DOMAIN calls[k].workers[b]
    /\ calls[k].workers[b][p] = "pending"
    /\ LET assignment == calls[k].batches[b][p]
           outcome == SettleOutcome(assignment, ok)
       IN  /\ assignment.isNull => ok
           /\ calls' = [calls EXCEPT ![k].workers[b][p] = outcome,
                                     ![k].outOfOrder =
                                         @ \/ \E q \in 1..(p - 1) :
                                                 calls[k].workers[b][q] = "pending"]
    /\ UNCHANGED <<contextMonitor, activeWaves, waves, probe, coordinator>>

\* Mutant of BatchFulfilled: the wait ends with the first promise of the
\* batch that is fulfilled (Promise.race for Promise.all).
BatchFirstFulfilled(c) == \E p \in DOMAIN c.workers[c.bi] : c.workers[c.bi][p] \in {"ok", "fail"}

\* await Promise.all(promises) has settled: it rejects as soon as one promise
\* of the batch rejects, and fulfils once all of them are fulfilled.
BatchRejected(c) == \E p \in DOMAIN c.workers[c.bi] : c.workers[c.bi][p] = "rejected"

BatchFulfilled(c) == \A p \in DOMAIN c.workers[c.bi] : c.workers[c.bi][p] \in {"ok", "fail"}

\* executeWave from the return of `await this.executeBatch(batch, wave)` to
\* its next await, its return, or its throw (catch, then finally).
ResumeWave(k) ==
    LET c == calls[k]
        w == c.wave
        wave == waves[w]
    IN  /\ c.pc = "awaiting"
        /\ BatchRejected(c) \/ BatchFulfilled(c)
        /\ IF BatchRejected(c)
           THEN \* catch: FAILED, rethrow; finally: release
                /\ waves' = [waves EXCEPT ![w].status = "FAILED"]
                /\ contextMonitor' = Finally(contextMonitor, wave.id, TRUE)
                /\ activeWaves' = activeWaves \ {wave.id}
                /\ calls' = [calls EXCEPT ![k].pc = "thrown",
                                          ![k].hadEntry = (wave.id \in DOMAIN contextMonitor.waveUsage)]
           ELSE LET results == c.results \o PromiseAllValues(c.batches[c.bi], c.workers[c.bi])
                IN  IF c.bi < Len(c.batches)
                    THEN \* results.push(...batchResults); next batch
                         /\ calls' = [calls EXCEPT ![k].results = results,
                                                   ![k].bi = c.bi + 1,
                                                   ![k].workers = Dispatch(c.workers, c.bi + 1)]
                         /\ UNCHANGED <<waves, contextMonitor, activeWaves>>
                    ELSE \* COMPLETED, wave.results = results; finally: release
                         /\ waves' = [waves EXCEPT ![w].status = "COMPLETED",
                                                   ![w].hasResults = TRUE,
                                                   ![w].results = results]
                         /\ contextMonitor' = Finally(contextMonitor, wave.id, FALSE)
                         /\ activeWaves' = activeWaves \ {wave.id}
                         /\ calls' = [calls EXCEPT ![k].results = results,
                                                   ![k].pc = "returned",
                                                   ![k].hadEntry = (wave.id \in DOMAIN contextMonitor.waveUsage)]
        /\ UNCHANGED <<probe, coordinator>>

\* Any number of callers of one WaveManager (the server runs its requests
\* concurrently on one instance). Worker calls succeed here, or reject on a
\* null assignment; failed worker calls are those of the one-call
\* specification.
Next ==
    \/ \E mode \in PlanModes, e \in ExistingCounts, level \in Levels :
           PlanWave(PlanSpecification, mode, History(e), level)
    \/ \E shape \in CallerShapes : CallerWave(shape)
    \/ \E k \in CallIds, w \in WaveIds : StartWave(k, w)
    \/ \E k \in CallIds : \E b \in DOMAIN calls[k].workers :
           \E p \in DOMAIN calls[k].workers[b] : WorkerSettle(k, b, p, TRUE)
    \/ \E k \in CallIds : ResumeWave(k)

Spec == Init /\ [][Next]_vars

(* --------------- one executeWave call over a larger wave --------------- *)

OneCallWaves ==
    { PlanWaveConfiguration(1, 1, PlanSpecification, pl.mode, History(pl.existingCount),
                            1, FreshAgentIds(1, MaxAssignments)) : pl \in OneCallPlans }
    \cup { CallerBuiltWave(1, shape) : shape \in OneCallShapes }

OneCallInit ==
    /\ contextMonitor = InitialContextMonitor
    /\ activeWaves = {}
    /\ waves \in { <<wave>> : wave \in OneCallWaves }
    /\ calls = [k \in CallIds |-> IdleCall]
    /\ probe = NoProbe
    /\ coordinator = InitialCoordinator

OneCallNext ==
    \/ StartWave(1, 1)
    \/ \E b \in DOMAIN calls[1].workers : \E p \in DOMAIN calls[1].workers[b] :
           \E ok \in BOOLEAN : WorkerSettle(1, b, p, ok)
    \/ ResumeWave(1)

SpecOneCall == OneCallInit /\ [][OneCallNext]_vars

(* -------------------- createAgentBatches on its own -------------------- *)

\* The inputs: a list of n assignments (named 1..n) and a maxConcurrency.
\* A maxConcurrency below 1 goes with the empty list only, as in the waves
\* planWave builds (Math.min(waveSize, 5) with waveSize <= 0 assignments).
BatchInputs ==
    { [fn |-> "createAgentBatches", assignments |-> [i \in 1..n |-> i],
       maxConcurrency |-> mc, done |-> FALSE, batches |-> <<>>] :
      n \in 0..MaxAssignments, mc \in 1..MaxBatchConcurrency }
    \cup { [fn |-> "createAgentBatches", assignments |-> <<>>,
            maxConcurrency |-> 0, done |-> FALSE, batches |-> <<>>] }

BatchesInit ==
    /\ contextMonitor = InitialContextMonitor
    /\ activeWaves = {}
    /\ waves = <<>>
    /\ calls = [k \in CallIds |-> IdleCall]
    /\ probe \in BatchInputs
    /\ coordinator = InitialCoordinator

ApplyCreateAgentBatches ==
    /\ probe.fn = "createAgentBatches"
    /\ ~probe.done
    /\ probe' = [probe EXCEPT !.done = TRUE,
                              !.batches = CreateAgentBatches(probe.assignments,
                                                             probe.maxConcurrency)]
    /\ UNCHANGED <<contextMonitor, activeWaves, waves, calls, coordinator>>

BatchesNext == ApplyCreateAgentBatches

SpecBatches == BatchesInit /\ [][BatchesNext]_vars

(* -------------------------- planWave on its own ------------------------ *)

\* Specifications by their innovationDimensions (the schema is an array of
\* strings: it may be empty and may repeat a dimension).
PlanSpecifications ==
    { [innovationDimensions |-> dims] :
        dims \in { <<"d1", "d2", "d3">>, <<"d1", "d2", "d3", "d4", "d5">>,
                   <<"d1", "d1", "d2">>, <<>> } }

\* OrchestrationMode values: count is a number or 'INFINITE' (countInfinite),
\* batchSize 0 stands for an absent batchSize.
AllModes ==
    { [type |-> t, countInfinite |-> (c = 0), count |-> c, batchSize |-> b] :
        t \in {"SINGLE", "BATCH", "INFINITE"}, c \in {0, 1, 3, 7}, b \in {0, 3, 5, 10} }

\* existingIterations: none, one that explored d1, one more that explored a
\* dimension the specification does not list, and two that explored d1..d3.
PlanHistories ==
    { <<>>,
      << [number |-> 1, innovationDimensions |-> <<"d1">>] >>,
      << [number |-> 1, innovationDimensions |-> <<"d1">>],
         [number |-> 2, innovationDimensions |-> <<"x">>] >>,
      << [number |-> 1, innovationDimensions |-> <<"d1", "d2">>],
         [number |-> 2, innovationDimensions |-> <<"d3">>] >> }

\* The crypto.randomUUID() draws of one planWave call, in order: UUIDs that
\* differ in their first eight characters, and UUIDs of which the first two
\* differ only after their first eight characters.
UuidDraws ==
    { FreshAgentIds(1, MaxAssignments),
      [i \in 1..MaxAssignments |->
          [head |-> <<1, IF i = 2 THEN 1 ELSE i>>, tail |-> i]] }

PlanInputs ==
    { [fn |-> "planWave", specification |-> sp, mode |-> mode,
       existingIterations |-> h, level |-> level, uuids |-> u, done |-> FALSE] :
      sp \in PlanSpecifications, mode \in AllModes, h \in PlanHistories,
      level \in Levels, u \in UuidDraws }

PlanInit ==
    /\ contextMonitor = InitialContextMonitor
    /\ activeWaves = {}
    /\ waves = <<>>
    /\ calls = [k \in CallIds |-> IdleCall]
    /\ probe \in PlanInputs
    /\ coordinator = InitialCoordinator

ApplyPlanWave ==
    /\ probe.fn = "planWave"
    /\ ~probe.done
    /\ PlanWaveEffect(probe.specification, probe.mode, probe.existingIterations,
                      probe.level, probe.uuids)
    /\ probe' = [probe EXCEPT !.done = TRUE]

PlanNext == ApplyPlanWave

SpecPlan == PlanInit /\ [][PlanNext]_vars

(* ------------------------ the AgentCoordinator ------------------------- *)

\* coordinateAgents(assignments, wave, contextMonitor), from its entry to its
\* await of Promise.all: every assignment is tracked as ASSIGNED, then every
\* executeCoordinatedAgent runs up to its await of executeAgent.
CoordinateAgents(c, assignments) ==
    /\ coordinator.calls[c].pc = "idle"
    /\ \A j \in CoordinationIds : j < c => coordinator.calls[j].pc # "idle"
    /\ coordinator' =
          [StartAll(TrackAll(coordinator, assignments), assignments) EXCEPT
              !.calls[c] = [pc |-> "awaiting", assignments |-> assignments,
                            stage |-> [p \in DOMAIN assignments |-> "executing"]]]
    /\ UNCHANGED <<contextMonitor, activeWaves, waves, calls, probe>>

\* executeCoordinatedAgent from the settling of `await this.executeAgent(...)`:
\* COMPLETING and on to the await of validateAndFinalizeResult when the
\* worker call returned (ok), or the catch block (FAILED, a failed
\* WaveResult) when it threw.
AgentExecuted(c, p, ok) ==
    /\ coordinator.calls[c].pc = "awaiting"
    /\ p \in DOMAIN coordinator.calls[c].stage
    /\ coordinator.calls[c].stage[p] = "executing"
    /\ LET agentId == coordinator.calls[c].assignments[p]
       IN  coordinator' =
             IF ok
             THEN [UpdateAgentProgress(coordinator, agentId,
                                       [status |-> "COMPLETING", progress |-> 90])
                   EXCEPT !.calls[c].stage[p] = "finalizing"]
             ELSE [UpdateAgentProgress(coordinator, agentId, [status |-> "FAILED"])
                   EXCEPT !.calls[c].stage[p] = "failed"]
    /\ UNCHANGED <<contextMonitor, activeWaves, waves, calls, probe>>

\* executeCoordinatedAgent from the settling of
\* `await this.validateAndFinalizeResult(...)` to its return: COMPLETED.
AgentFinalized(c, p) ==
    /\ coordinator.calls[c].pc = "awaiting"
    /\ p \in DOMAIN coordinator.calls[c].stage
    /\ coordinator.calls[c].stage[p] = "finalizing"
    /\ LET agentId == coordinator.calls[c].assignments[p]
       IN  coordinator' =
             [UpdateAgentProgress(coordinator, agentId,
                                  [status |-> "COMPLETED", progress |-> 100])
              EXCEPT !.calls[c].stage[p] = "done"]
    /\ UNCHANGED <<contextMonitor, activeWaves, waves, calls, probe>>

\* coordinateAgents from the settling of `await Promise.all(executionPromises)`
\* to its return: the results are stored and their agents no longer tracked.
CoordinateReturn(c) ==
    LET call == coordinator.calls[c]
        results == [p \in DOMAIN call.assignments |->
                       [agentId |-> call.assignments[p],
                        success |-> (call.stage[p] = "done")]]
    IN  /\ call.pc = "awaiting"
        /\ \A p \in DOMAIN call.stage : call.stage[p] \in {"done", "failed"}
        /\ coordinator' = [StoreResults(coordinator, results) EXCEPT
                              !.calls[c].pc = "returned"]
        /\ UNCHANGED <<contextMonitor, activeWaves, waves, calls, probe>>

CoordinatorNext ==
    \/ \E c \in CoordinationIds, assignments \in CoordinationInputs :
           CoordinateAgents(c, assignments)
    \/ \E c \in CoordinationIds : \E p \in DOMAIN coordinator.calls[c].stage :
           \E ok \in BOOLEAN : AgentExecuted(c, p, ok)
    \/ \E c \in CoordinationIds : \E p \in DOMAIN coordinator.calls[c].stage :
           AgentFinalized(c, p)
    \/ \E c \in CoordinationIds : CoordinateReturn(c)

SpecCoordinator == Init /\ [][CoordinatorNext]_vars

(* ------------- one executeWave call, with the event loop fair ---------- *)

\* The waves of the fair one-call specification: those of the one-call
\* specification and a caller-built wave with maxConcurrency 0.
FairCallShapes == OneCallShapes \cup { [n |-> 2, maxConcurrency |-> 0, nullAt |-> 0] }

FairCallInit ==
    /\ contextMonitor = InitialContextMonitor
    /\ activeWaves = {}
    /\ waves \in { <<wave>> : wave \in 
                      { PlanWaveConfiguration(1, 1, PlanSpecification, pl.mode,
                                              History(pl.existingCount), 1,
                                              FreshAgentIds(1, MaxAssignments)) :
                          pl \in OneCallPlans }
                      \cup { CallerBuiltWave(1, shape) : shape \in FairCallShapes } }
    /\ calls = [k \in CallIds |-> IdleCall]
    /\ probe = NoProbe
    /\ coordinator = InitialCoordinator

\* The call is made, every worker call settles and the event loop runs every
\* continuation that is ready: a step that can be taken is taken.
SpecOneCallFair == FairCallInit /\ [][OneCallNext]_vars /\ WF_vars(OneCallNext)

(* ------------------ one coordinateAgents call on a wave ---------------- *)

\* The waves coordinateAgents is called with: planned for a batch of 7 with
\* batchSize 10 (7 assignments, maxConcurrency 5) and for a batch of 3.
CoordinatedModes ==
    { [type |-> "BATCH", countInfinite |-> FALSE, count |-> 7, batchSize |-> 10],
      [type |-> "BATCH", countInfinite |-> FALSE, count |-> 3, batchSize |-> 0] }

CoordinateWaveInit ==
    /\ contextMonitor = InitialContextMonitor
    /\ activeWaves = {}
    /\ waves \in { << PlanWaveConfiguration(1, 1, PlanSpecification, mode, <<>>, 1,
                                            FreshAgentIds(1, MaxAssignments)) >> :
                    mode \in CoordinatedModes }
    /\ calls = [k \in CallIds |-> IdleCall]
    /\ probe = NoProbe
    /\ coordinator = InitialCoordinator

\* coordinateAgents(wave.agentAssignments, wave, contextMonitor)
CoordinateWave(c, w) ==
    /\ w \in DOMAIN waves
    /\ CoordinateAgents(c, [i \in DOMAIN waves[w].agentAssignments |->
                               waves[w].agentAssignments[i].agentId])

CoordinateWaveNext ==
    \/ CoordinateWave(1, 1)
    \/ \E p \in DOMAIN coordinator.calls[1].stage :
           \E ok \in BOOLEAN : AgentExecuted(1, p, ok)
    \/ \E p \in DOMAIN coordinator.calls[1].stage : AgentFinalized(1, p)
    \/ CoordinateReturn(1)

SpecCoordinateWave == CoordinateWaveInit /\ [][CoordinateWaveNext]_vars

(* ---------------------- one orchestration run -------------------------- *)

\* The modes of an infinite_orchestrate request: one iteration, a batch of 7
\* in waves of 5, a batch of 3, and the infinite mode.
OrchestrateModes ==
    { [type |-> "SINGLE",   countInfinite |-> FALSE, count |-> 1, batchSize |-> 0],
      [type |-> "BATCH",    countInfinite |-> FALSE, count |-> 7, batchSize |-> 5],
      [type |-> "BATCH",    countInfinite |-> FALSE, count |-> 3, batchSize |-> 0],
      [type |-> "INFINITE", countInfinite |-> TRUE,  count |-> 0, batchSize |-> 0] }

\* params.specification of a request: specifications parseSpecification
\* accepts, with their sophisticationLevels (by their level) in the order the
\* caller lists them; the array may be empty.
OrchestrateSpecifications ==
    { [innovationDimensions |-> PlanSpecification.innovationDimensions,
       sophisticationLevels |-> levels] :
      levels \in { <<>>, <<1>>, <<2, 3>>, <<3, 1, 2>> } }

\* Mutant of SortLevels: the levels stay in the order they were listed in.
SortLevelsAsListed(levels) == levels

\* One level put in its place among sorted ones, after those equal to it.
RECURSIVE InsertLevel(_, _)
InsertLevel(sorted, level) ==
    IF sorted = <<>> THEN <<level>>
    ELSE IF level < Head(sorted) THEN <<level>> \o sorted
    ELSE <<Head(sorted)>> \o InsertLevel(Tail(sorted), level)

\* sophisticationLevels.sort((a, b) => a.level - b.level): ascending, stable,
\* and in place.
RECURSIVE SortLevels(_)
SortLevels(levels) ==
    IF levels = <<>> THEN <<>>
    ELSE InsertLevel(SortLevels(SubSeq(levels, 1, Len(levels) - 1)), levels[Len(levels)])

\* parseSpecification(input).specification for an input it accepts: the
\* validated specification, whose sophisticationLevels the parser has sorted.
ParseSpecification(input) ==
    [input EXCEPT !.sophisticationLevels = SortLevels(input.sophisticationLevels)]

\* The response of a run that has not returned.
NoResponse == [none |-> TRUE]

\* orchestrateInfiniteLoop(specification, outputDirectory, config), called
\* by handleInfiniteOrchestrate with the parsed specification, config.mode
\* and config.contextThreshold; listed are the levels as the request had them.
OrchestrateRequests ==
    { [fn |-> "orchestrateInfiniteLoop", pc |-> "called",
       listed |-> sp.sophisticationLevels,
       specification |-> ParseSpecification(sp), mode |-> mode,
       contextThreshold |-> th, response |-> NoResponse] :
      sp \in OrchestrateSpecifications, mode \in OrchestrateModes,
      th \in ThresholdFractions }

\* specification.sophisticationLevels[0]
FirstLevel(specification) ==
    IF Len(specification.sophisticationLevels) = 0 THEN Undefined
    ELSE specification.sophisticationLevels[1]

\* planWave throws when sophisticationLevels[0] is undefined:
\* estimateContextRequirement reads sophisticationLevel.level, a TypeError
\* thrown before planWave has built anything.
PlanWaveThrows(specification) == Len(specification.sophisticationLevels) = 0

\* Mutant of OrchestrationFailure: the catch block rethrows the error.
OrchestrationFailureRethrown(totalIterations, completedWaves, allResults, cm) ==
    [ pc |-> "thrown", response |-> NoResponse ]

\* The catch block of orchestrateInfiniteLoop: the run returns a response
\* built from the locals as they are when the error is caught.
OrchestrationFailure(totalIterations, completedWaves, allResults, cm) ==
    [ pc |-> "returned",
      response |-> [ success         |-> FALSE,
                     totalIterations |-> totalIterations,
                     completedWaves  |-> completedWaves,
                     results         |-> allResults,
                     contextUsage    |-> cm,
                     hasErrorMessage |-> TRUE ] ]

\* Mutant of OrchestrationSuccess: success is reported only when every
\* WaveResult of the wave has success = true.
OrchestrationSuccessIfAllSucceeded(waveResults, cm) ==
    [ pc |-> "returned",
      response |-> [ success         |-> \A r \in DOMAIN waveResults : waveResults[r].success,
                     totalIterations |-> Len(waveResults),
                     completedWaves  |-> 1,
                     results         |-> waveResults,
                     contextUsage    |-> cm,
                     hasErrorMessage |-> FALSE ] ]

\* The return of the try block, after the one wave of the run.
OrchestrationSuccess(waveResults, cm) ==
    [ pc |-> "returned",
      response |-> [ success         |-> TRUE,
                     totalIterations |-> Len(waveResults),
                     completedWaves  |-> 1,
                     results         |-> waveResults,
                     contextUsage    |-> cm,
                     hasErrorMessage |-> FALSE ] ]

OrchestrateInit ==
    /\ contextMonitor = InitialContextMonitor
    /\ activeWaves = {}
    /\ waves = <<>>
    /\ calls = [k \in CallIds |-> IdleCall]
    /\ probe \in OrchestrateRequests
    /\ coordinator = InitialCoordinator

\* orchestrateInfiniteLoop from its entry to `await executeWave(...)`: the
\* level is read, the wave is planned with no existing iterations, and
\* executeWave runs to its first await; or planWave throws and the catch
\* block returns.
OrchestrateStart ==
    /\ probe.fn = "orchestrateInfiniteLoop"
    /\ probe.pc = "called"
    /\ LET sophisticationLevel == FirstLevel(probe.specification)
           existingIterations == <<>>
       IN  IF PlanWaveThrows(probe.specification)
           THEN LET caught == OrchestrationFailure(0, 0, <<>>, contextMonitor)
                IN  /\ probe' = [probe EXCEPT !.pc = caught.pc,
                                              !.response = caught.response]
                    /\ UNCHANGED <<contextMonitor, activeWaves, waves, calls>>
           ELSE /\ ExecuteWaveEntry(1, FreshWaveId,
                        Append(waves,
                               PlanWaveConfiguration(FreshWaveId, GetNextWaveNumber,
                                                     probe.specification, probe.mode,
                                                     existingIterations,
                                                     sophisticationLevel,
                                                     FreshAgentIds(FreshWaveId, MaxAssignments))))
                /\ probe' = [probe EXCEPT !.pc = "awaiting"]
    /\ UNCHANGED coordinator

\* orchestrateInfiniteLoop after `await executeWave(...)`: the try block
\* returns the response, or executeWave threw and the catch block does.
OrchestrateResume ==
    /\ probe.fn = "orchestrateInfiniteLoop"
    /\ probe.pc = "awaiting"
    /\ Exited(calls[1])
    /\ LET outcome ==
               IF calls[1].pc = "returned"
               THEN OrchestrationSuccess(calls[1].results, contextMonitor)
               ELSE OrchestrationFailure(0, 0, <<>>, contextMonitor)
       IN  probe' = [probe EXCEPT !.pc = outcome.pc, !.response = outcome.response]
    /\ UNCHANGED <<contextMonitor, activeWaves, waves, calls, coordinator>>

\* One infinite_orchestrate request on a fresh server; the worker calls of
\* its wave succeed or fail.
OrchestrateNext ==
    \/ OrchestrateStart
    \/ \E b \in DOMAIN calls[1].workers : \E p \in DOMAIN calls[1].workers[b] :
           \E ok \in BOOLEAN : WorkerSettle(1, b, p, ok)
    \/ ResumeWave(1)
    \/ OrchestrateResume

SpecOrchestrate == OrchestrateInit /\ [][OrchestrateNext]_vars

(* ------------------- getCoordinationMetrics on its own ----------------- *)

\* What the coordinator holds for one agent id when the metrics are read:
\* nothing, an entry of activeAgents (those that exist between two stretches
\* of a coordinateAgents call), or a WaveResult in completedAgents with the
\* completionTime (Date.now() - startTime) it was given.
AgentHoldings ==
    { [kind |-> "none"] }
    \cup { [kind |-> "active", status |-> e[1], progress |-> e[2]] :
             e \in { <<"IN_PROGRESS", 20>>, <<"COMPLETING", 90>>,
                      <<"COMPLETED", 100>>, <<"FAILED", 20>> } }
    \cup { [kind |-> "completed", success |-> ok, completionTime |-> t] :
             ok \in BOOLEAN, t \in {1, 2} }

MetricsAgentIds == {"a1", "a2", "a3", "a4"}

CoordinatorHolding(h) ==
    [InitialCoordinator EXCEPT
        !.activeAgents =
            [k \in {x \in MetricsAgentIds : h[x].kind = "active"} |->
                [status |-> h[k].status, progress |-> h[k].progress]],
        !.completedAgents =
            [k \in {x \in MetricsAgentIds : h[x].kind = "completed"} |->
                [agentId |-> k, success |-> h[k].success,
                 completionTime |-> h[k].completionTime]]]

MetricsInit ==
    /\ contextMonitor = InitialContextMonitor
    /\ activeWaves = {}
    /\ waves = <<>>
    /\ calls = [k \in CallIds |-> IdleCall]
    /\ probe = [fn |-> "getCoordinationMetrics", done |-> FALSE]
    /\ coordinator \in { CoordinatorHolding(h) : h \in [MetricsAgentIds -> AgentHoldings] }

ApplyGetCoordinationMetrics ==
    /\ probe.fn = "getCoordinationMetrics"
    /\ ~probe.done
    /\ probe' = [fn |-> "getCoordinationMetrics", done |-> TRUE,
                 metrics |-> GetCoordinationMetrics(coordinator)]
    /\ UNCHANGED <<contextMonitor, activeWaves, waves, calls, coordinator>>

MetricsNext == ApplyGetCoordinationMetrics

SpecMetrics == MetricsInit /\ [][MetricsNext]_vars

(* ------------------------------- claims -------------------------------- *)

\* Number of worker calls of call k that are dispatched and not yet settled.
PendingCount(k) ==
    Cardinality({ bp \in { <<b, p>> : b \in DOMAIN calls[k].workers, p \in 1..MaxAssignments } :
                    /\ bp[2] \in DOMAIN calls[k].workers[bp[1]]
                    /\ calls[k].workers[bp[1]][bp[2]] = "pending" })

\* Number of assignments in the batches 1..b of call k.
BatchEnd(k, b) == SumSeq([x \in 1..b |-> Len(calls[k].batches[x])])

WaveOf(k) == waves[calls[k].wave]

\* C1: an executeWave call that has returned returns exactly one WaveResult
\* per assignment of the wave, and the i-th result carries the agentId and
\* the iterationNumber of the i-th assignment, whatever the order in which
\* the worker calls settled.
C1_ResultsFollowAssignments ==
    \A k \in CallIds :
        calls[k].pc = "returned" =>
            LET a == WaveOf(k).agentAssignments
                r == calls[k].results
            IN  /\ Len(r) = Len(a)
                /\ \A i \in 1..Len(a) :
                       /\ r[i].agentId = a[i].agentId
                       /\ r[i].iterationNumber = a[i].iterationNumber

\* A call over three batches has returned, and some worker call of it
\* settled before an earlier one of its batch.
C1_Witness ==
    \E k \in CallIds :
        /\ calls[k].pc = "returned"
        /\ Len(calls[k].batches) = 3
        /\ calls[k].outOfOrder
        /\ Len(calls[k].results) = 12

\* C2: within one executeWave call, a worker call of batch N+1 is dispatched
\* only when every worker call of batch N has settled (fulfilled) and the
\* results of batch N are in the call's results.
C2_BatchesNeverInterleave ==
    \A k \in CallIds : \A b \in DOMAIN calls[k].workers :
        (b > 1 /\ \E p \in DOMAIN calls[k].workers[b] : calls[k].workers[b][p] # "new") =>
            /\ \A q \in DOMAIN calls[k].workers[b - 1] :
                   calls[k].workers[b - 1][q] \in {"ok", "fail"}
            /\ Len(calls[k].results) >= BatchEnd(k, b - 1)

\* The second batch of a call is in flight, partly settled.
C2_Witness ==
    \E k \in CallIds :
        /\ calls[k].pc = "awaiting"
        /\ calls[k].bi = 2
        /\ \E p, q \in DOMAIN calls[k].workers[2] :
               /\ calls[k].workers[2][p] = "pending"
               /\ calls[k].workers[2][q] = "fail"

\* C3: at every moment of an executeWave call, the worker calls it has
\* dispatched and that have not settled are at most wave.maxConcurrency.
C3_PendingWithinMaxConcurrency ==
    \A k \in CallIds :
        calls[k].pc # "idle" => PendingCount(k) <= WaveOf(k).maxConcurrency

\* A planned wave of 12 assignments has its second batch in flight:
\* exactly maxConcurrency = 5 worker calls.
C3_Witness ==
    \E k \in CallIds :
        /\ calls[k].pc = "awaiting"
        /\ Len(WaveOf(k).agentAssignments) > WaveOf(k).maxConcurrency
        /\ WaveOf(k).maxConcurrency = ConcurrencyCap
        /\ PendingCount(k) = WaveOf(k).maxConcurrency
        /\ calls[k].bi = 2

\* C4: createAgentBatches cuts the list into consecutive slices in the
\* original order: the batches concatenated give the list back, every batch
\* but the last has maxConcurrency elements, the last has between 1 and
\* maxConcurrency; 12 assignments with maxConcurrency 5 give 5, 5, 2.
C4_BatchesPartitionInOrder ==
    probe.done =>
        LET b == probe.batches
            mc == probe.maxConcurrency
        IN  /\ Concat(b) = probe.assignments
            /\ \A x \in 1..Len(b) :
                   IF x < Len(b) THEN Len(b[x]) = mc
                   ELSE 1 <= Len(b[x]) /\ Len(b[x]) <= mc
            /\ (Len(probe.assignments) = 12 /\ mc = 5) =>
                   [x \in 1..Len(b) |-> Len(b[x])] = <<5, 5, 2>>

\* createAgentBatches has been applied to 12 assignments with
\* maxConcurrency 5 and gave three batches, the last of 2.
C4_Witness ==
    /\ probe.done
    /\ Len(probe.assignments) = 12
    /\ probe.maxConcurrency = 5
    /\ Len(probe.batches) = 3
    /\ Len(probe.batches[3]) = 2

\* Whether the worker call of the i-th assignment of call k failed: the
\* promise of its batch position settled as "fail".
RECURSIVE PositionOf(_, _, _)
PositionOf(k, i, b) ==
    IF i <= Len(calls[k].batches[b]) THEN <<b, i>>
    ELSE PositionOf(k, i - Len(calls[k].batches[b]), b + 1)

WorkerState(k, i) ==
    LET bp == PositionOf(k, i, 1) IN calls[k].workers[bp[1]][bp[2]]

NoNullAssignment(wave) ==
    \A i \in DOMAIN wave.agentAssignments : ~wave.agentAssignments[i].isNull

C6_ReleasedOnEveryExit ==
    [][ \A k \in CallIds :
            (~Exited(calls[k]) /\ Exited(calls'[k])) =>
                /\ waves[calls'[k].wave].id \notin DOMAIN contextMonitor'.waveUsage
                /\ ~calls'[k].overlapped =>
                       contextMonitor'.usedCapacity = calls'[k].usedAtStart ]_vars

\* A call that ran alone has exited by a throw, and the ledger is back to
\* what it was, without an entry for its wave.
C6_Witness ==
    \E k \in CallIds :
        /\ calls[k].pc = "thrown"
        /\ ~calls[k].overlapped
        /\ WaveOf(k).contextBudget > 0
        /\ WaveOf(k).id \notin DOMAIN contextMonitor.waveUsage
        /\ contextMonitor.usedCapacity = calls[k].usedAtStart

\* C7: a reservation fails with CapacityExceeded exactly when usedCapacity +
\* contextBudget > totalCapacity, and then the wave is not started and no
\* worker call is dispatched: no executeWave call is past its reservation
\* with a budget that overran the capacity it found.
C7_OverrunIsRejected ==
    \A k \in CallIds :
        (calls[k].pc # "idle"
            /\ calls[k].usedAtStart + WaveOf(k).contextBudget > contextMonitor.totalCapacity) =>
                /\ WaveOf(k).status = "PLANNED"
                /\ \A b \in DOMAIN calls[k].workers : \A p \in DOMAIN calls[k].workers[b] :
                       calls[k].workers[b][p] = "new"

\* C8: 0 <= usedCapacity <= totalCapacity in every reachable state.
C8_UsedWithinCapacity ==
    /\ 0 <= contextMonitor.usedCapacity
    /\ contextMonitor.usedCapacity <= contextMonitor.totalCapacity

\* Sum of the values of a Map<string, number>.
RECURSIVE MapSum(_)
MapSum(m) ==
    IF DOMAIN m = {} THEN 0
    ELSE LET key == CHOOSE x \in DOMAIN m : TRUE
         IN  m[key] + MapSum([x \in (DOMAIN m) \ {key} |-> m[x]])

\* C9: the sum of the values in waveUsage equals usedCapacity in every
\* reachable state, under any interleaving of executeWave calls.
C9_WaveUsageSumsToUsed ==
    MapSum(contextMonitor.waveUsage) = contextMonitor.usedCapacity

\* C10: release is idempotent. In every ledger state the WaveManager
\* reaches, releasing a wave id without a reservation leaves the ledger as
\* it is, and releasing any wave id twice leaves it as after the first
\* release.
C10_ReleaseIdempotent ==
    \A id \in WaveIds :
        LET once == ReleaseContextUsage(contextMonitor, id)
            twice == ReleaseContextUsage(once, id)
        IN  /\ twice = once
            /\ id \notin DOMAIN contextMonitor.waveUsage => once = contextMonitor

\* An executeWave call has returned and its release found no reservation
\* for its wave id: an overlapping call on the same wave had released it.
C10_Witness ==
    \E k \in CallIds :
        /\ calls[k].pc = "returned"
        /\ ~calls[k].hadEntry
        /\ WaveOf(k).id \notin DOMAIN contextMonitor.waveUsage

\* C11: for every ledger state and every threshold fraction f in (0, 1],
\* shouldTriggerGracefulShutdown(f) is true exactly when
\* usedCapacity / totalCapacity >= f.
C11_ShutdownAtFraction ==
    \A f \in ThresholdFractions :
        ShouldTriggerGracefulShutdown(contextMonitor, f)
            <=> (contextMonitor.usedCapacity * f.den
                    >= f.num * contextMonitor.totalCapacity)

\* The status changes one atomic stretch of executeWave may make under the
\* life cycle PLANNED -> IN_PROGRESS -> COMPLETED | FAILED | CANCELLED: none,
\* one transition, or both in a row (a wave without assignments is started
\* and completed before the first await).
StatusStep(from, to) ==
    \/ to = from
    \/ from = "PLANNED" /\ to \in {"IN_PROGRESS", "COMPLETED", "FAILED", "CANCELLED"}
    \/ from = "IN_PROGRESS" /\ to \in {"COMPLETED", "FAILED", "CANCELLED"}

\* C12: a wave's status changes only along PLANNED -> IN_PROGRESS and
\* IN_PROGRESS -> COMPLETED | FAILED | CANCELLED; a wave in a terminal status
\* never changes status again, for any sequence of executeWave calls.
C12_StatusOnlyForward ==
    [][\A w \in DOMAIN waves : StatusStep(waves[w].status, waves'[w].status)]_vars

\* C13: in every reachable state a wave's results field is populated if and
\* only if the wave's status is terminal (COMPLETED, FAILED or CANCELLED).
C13_ResultsIffTerminal ==
    \A w \in DOMAIN waves :
        waves[w].hasResults
            <=> waves[w].status \in {"COMPLETED", "FAILED", "CANCELLED"}

\* The wave a planWave call applied on its own has returned.
Planned == probe.fn = "planWave" /\ probe.done

PlannedWave == waves[1]

\* min(remaining requested count, batch size or 5): a count of INFINITE
\* leaves the batch size as the only bound.
BatchWaveSize(mode, existingCount) ==
    LET batchSize == IF mode.batchSize = 0 THEN 5 ELSE mode.batchSize
    IN  IF mode.countInfinite THEN batchSize
        ELSE Min(mode.count - existingCount, batchSize)

\* C14 as stated: the planned wave size is 1 for mode SINGLE, 5 for mode
\* INFINITE and, for mode BATCH, the minimum of the remaining requested count
\* (count minus the number of existing iterations) and the batch size (5 when
\* no batch size is given).
C14_WaveSizeByMode ==
    Planned =>
        PlannedWave.targetIterations =
            CASE probe.mode.type = "SINGLE" -> 1
              [] probe.mode.type = "INFINITE" -> 5
              [] probe.mode.type = "BATCH" ->
                    BatchWaveSize(probe.mode, Len(probe.existingIterations))

\* C14, amended: the planned wave size is 1 for mode SINGLE, 5 for mode
\* INFINITE, 5 for mode BATCH with count INFINITE whatever the batch size,
\* and for mode BATCH with a numeric count the minimum of count minus the
\* number of existing iterations and the batch size (5 when none is given).
C14_WaveSizeByModeAndCount ==
    Planned =>
        PlannedWave.targetIterations =
            CASE probe.mode.type = "SINGLE" -> 1
              [] probe.mode.type = "INFINITE" -> 5
              [] probe.mode.type = "BATCH" /\ probe.mode.countInfinite -> 5
              [] probe.mode.type = "BATCH" /\ ~probe.mode.countInfinite ->
                    Min(probe.mode.count - Len(probe.existingIterations),
                        IF probe.mode.batchSize = 0 THEN 5 ELSE probe.mode.batchSize)

\* The scenario: count 7, batchSize 5 and no existing iterations give 5; and
\* a history of one iteration with count 3 leaves 2.
C14_Witness ==
    /\ Planned
    /\ probe.mode.type = "BATCH" /\ ~probe.mode.countInfinite
    /\ \/ /\ probe.mode.count = 7 /\ probe.mode.batchSize = 5
          /\ probe.existingIterations = <<>>
          /\ PlannedWave.targetIterations = 5
          /\ Len(PlannedWave.agentAssignments) = 5
       \/ /\ probe.mode.count = 3 /\ probe.mode.batchSize = 0
          /\ Len(probe.existingIterations) = 1
          /\ PlannedWave.targetIterations = 2

\* The dimensions of the specification the wave was planned for, as a set.
SpecificationDimensions ==
    { probe.specification.innovationDimensions[d] :
        d \in DOMAIN probe.specification.innovationDimensions }

\* The dimensions used before assignment i is given its own: those of the
\* history and those of the earlier assignments of the wave.
UsedBefore(i) ==
    UsedDimensions(probe.existingIterations)
        \cup { PlannedWave.agentAssignments[j].innovationFocus : j \in 1..(i - 1) }

\* C15: for every specification, history and wave size, the innovationFocus
\* values of the assignments of one planned wave are pairwise distinct
\* whenever the specification has at least as many innovation dimensions as
\* the wave has assignments.
C15_FocusDistinctWithinWave ==
    (Planned /\ Len(probe.specification.innovationDimensions)
                    >= Len(PlannedWave.agentAssignments))
        => \A i, j \in DOMAIN PlannedWave.agentAssignments :
               i # j => PlannedWave.agentAssignments[i].innovationFocus
                            # PlannedWave.agentAssignments[j].innovationFocus

\* C16: an assignment is given a dimension that was already used (in the
\* history or by an earlier assignment of the same wave) only when every
\* dimension of the specification has already been used; as long as some
\* dimension of the specification is unused, the one chosen is unused.
C16_UsedOnlyWhenExhausted ==
    Planned =>
        \A i \in DOMAIN PlannedWave.agentAssignments :
            PlannedWave.agentAssignments[i].innovationFocus \in UsedBefore(i)
                => SpecificationDimensions \subseteq UsedBefore(i)

\* C17: within one planned wave, no two assignments have the same agentId.
C17_AgentIdsDistinctWithinWave ==
    Planned =>
        \A i, j \in DOMAIN PlannedWave.agentAssignments :
            i # j => PlannedWave.agentAssignments[i].agentId
                         # PlannedWave.agentAssignments[j].agentId

\* C18: planWave returns a wave whose status is PLANNED and leaves the
\* WaveManager's state unchanged: usedCapacity, waveUsage and the set of
\* active waves are the same after the call as before it.
C18_PlanWaveLeavesManagerUnchanged ==
    [][(/\ Len(waves') = Len(waves) + 1
        /\ waves'[Len(waves')].origin = "planWave")
       => /\ waves'[Len(waves')].status = "PLANNED"
          /\ contextMonitor'.usedCapacity = contextMonitor.usedCapacity
          /\ contextMonitor'.waveUsage = contextMonitor.waveUsage
          /\ activeWaves' = activeWaves
          /\ \A w \in DOMAIN waves : waves'[w] = waves[w]]_vars

\* A wave has just been planned while another wave is executing and holds a
\* reservation.
C18_Witness ==
    /\ Len(waves) = 2
    /\ waves[2].origin = "planWave" /\ waves[2].status = "PLANNED"
    /\ activeWaves = {1}
    /\ contextMonitor.usedCapacity = waves[1].contextBudget
    /\ contextMonitor.usedCapacity > 0
    /\ DOMAIN contextMonitor.waveUsage = {1}

\* C19: every wave returned by planWave has maxConcurrency equal to the
\* minimum of its wave size and 5, so the concurrency cap never exceeds 5
\* whatever batch size was requested.
C19_MaxConcurrencyCapped ==
    Planned =>
        LET waveSize == CalculateWaveSize(probe.mode, Len(probe.existingIterations))
        IN  /\ PlannedWave.maxConcurrency = (IF waveSize < 5 THEN waveSize ELSE 5)
            /\ PlannedWave.maxConcurrency <= 5

\* A batch size of 10 was requested and seven assignments were planned: the
\* cap is 5.
C19_Witness ==
    /\ Planned
    /\ probe.mode.batchSize = 10
    /\ Len(PlannedWave.agentAssignments) = 7
    /\ PlannedWave.maxConcurrency = 5

\* The status changes of an agent under the life cycle ASSIGNED -> STARTING
\* -> IN_PROGRESS -> COMPLETING -> COMPLETED | FAILED.
AgentStatusStep(from, to) ==
    <<from, to>> \in { <<"ASSIGNED", "STARTING">>, <<"STARTING", "IN_PROGRESS">>,
                       <<"IN_PROGRESS", "COMPLETING">>, <<"COMPLETING", "COMPLETED">>,
                       <<"COMPLETING", "FAILED">> }

\* C20: the tracked status of each agent changes only along ASSIGNED ->
\* STARTING, STARTING -> IN_PROGRESS, IN_PROGRESS -> COMPLETING, COMPLETING ->
\* COMPLETED and COMPLETING -> FAILED; it never moves backwards and never
\* leaves COMPLETED or FAILED.
C20_AgentStatusOnlyForward ==
    \A step \in coordinator.statusSteps : AgentStatusStep(step[1], step[2])

\* The progress that goes with a status at the checkpoints.
CheckpointProgress(status) ==
    CASE status = "ASSIGNED" -> 0
      [] status = "STARTING" -> 5
      [] status = "IN_PROGRESS" -> 20
      [] status = "COMPLETING" -> 90
      [] status = "COMPLETED" -> 100

\* C21: the tracked progress of each agent never decreases over any sequence
\* of coordinator operations, and it is 0 in ASSIGNED, 5 in STARTING, 20 in
\* IN_PROGRESS, 90 in COMPLETING and 100 in COMPLETED.
C21_ProgressNeverDecreases ==
    /\ \A step \in coordinator.progressSteps : step[1] <= step[2]
    /\ \A entry \in coordinator.entriesWritten :
           entry.status # "FAILED" => entry.progress = CheckpointProgress(entry.status)

\* Every assignment handed to coordinateAgents so far has reached COMPLETED
\* or FAILED (its executeCoordinatedAgent has returned its WaveResult).
EveryAssignmentTerminal ==
    \A c \in CoordinationIds :
        \A p \in DOMAIN coordinator.calls[c].stage :
            coordinator.calls[c].stage[p] \in {"done", "failed"}

\* C22: areAllAgentsComplete returns true exactly when every assignment
\* handed to coordinateAgents has reached COMPLETED or FAILED: an agent is
\* moved from the in-flight map to the completed map when it reaches its
\* terminal status, so no in-flight entry has a terminal status.
C22_AllCompleteIffAllTerminal ==
    /\ AreAllAgentsComplete(coordinator) <=> EveryAssignmentTerminal
    /\ \A agentId \in DOMAIN coordinator.activeAgents :
           coordinator.activeAgents[agentId].status \notin {"COMPLETED", "FAILED"}

\* r is sum / n rounded to the nearest integer, halves up:
\* r - 1/2 <= sum / n < r + 1/2.
IsRoundedMean(r, sum, n) ==
    /\ (2 * r - 1) * n <= 2 * sum
    /\ 2 * sum < (2 * r + 1) * n

\* C23: getCoordinationMetrics reports averageProgress 100 when no agent is
\* in-flight and otherwise the rounded mean progress of the in-flight agents,
\* and averageCompletionTime 0 when no agent has finished and otherwise the
\* rounded mean completion time of the finished ones.
C23_MetricsAverages ==
    (probe.fn = "getCoordinationMetrics" /\ probe.done) =>
        LET active == coordinator.activeAgents
            completed == coordinator.completedAgents
        IN  /\ IF DOMAIN active = {} THEN probe.metrics.averageProgress = 100
               ELSE IsRoundedMean(probe.metrics.averageProgress,
                                  SumField(active, DOMAIN active, "progress"),
                                  Cardinality(DOMAIN active))
            /\ IF DOMAIN completed = {} THEN probe.metrics.averageCompletionTime = 0
               ELSE IsRoundedMean(probe.metrics.averageCompletionTime,
                                  SumField(completed, DOMAIN completed, "completionTime"),
                                  Cardinality(DOMAIN completed))

\* Three agents in flight at 20, 90 and 90 (mean 66.67, reported 67) and one
\* finished.
C23_Witness ==
    /\ probe.fn = "getCoordinationMetrics" /\ probe.done
    /\ Cardinality(DOMAIN coordinator.activeAgents) = 3
    /\ SumField(coordinator.activeAgents, DOMAIN coordinator.activeAgents, "progress") = 200
    /\ probe.metrics.averageProgress = 67
    /\ Cardinality(DOMAIN coordinator.completedAgents) = 1

\* An orchestration run has returned its response.
RunReturned == probe.fn = "orchestrateInfiniteLoop" /\ probe.pc = "returned"

\* C24: in BATCH mode with a numeric count N, a run that no wave-level
\* failure stopped has produced N iterations in all (count 7 with batchSize 5:
\* a wave of 5, then a wave of 2).
C24_BatchRunReachesCount ==
    (RunReturned /\ probe.response.success
        /\ probe.mode.type = "BATCH" /\ ~probe.mode.countInfinite) =>
        /\ probe.response.totalIterations = probe.mode.count
        /\ Len(probe.response.results) = probe.mode.count

\* C25: in INFINITE mode, a run stops launching waves exactly when the
\* utilization of the ledger has reached config.contextThreshold: when it
\* returns, usedCapacity / totalCapacity >= contextThreshold.
C25_InfiniteRunStopsAtThreshold ==
    (RunReturned /\ probe.response.success /\ probe.mode.type = "INFINITE") =>
        probe.response.contextUsage.usedCapacity * probe.contextThreshold.den
            >= probe.contextThreshold.num * probe.response.contextUsage.totalCapacity

\* The WaveResults of the waves that completed, in the order of the waves.
RECURSIVE CompletedResults(_)
CompletedResults(ws) ==
    IF ws = <<>> THEN <<>>
    ELSE (IF Head(ws).status = "COMPLETED" THEN Head(ws).results ELSE <<>>)
            \o CompletedResults(Tail(ws))

\* Planning or executing a wave of the run threw.
WaveLevelFailure ==
    PlanWaveThrows(probe.specification) \/ \E k \in CallIds : calls[k].pc = "thrown"

\* C26: an orchestration run never throws to its caller; when planning or
\* executing a wave threw, it launches no further wave and returns
\* success = false with an error message and the results of the waves
\* completed before.
C26_FailureReturnsResponse ==
    probe.fn = "orchestrateInfiniteLoop" =>
        /\ probe.pc # "thrown"
        /\ WaveLevelFailure =>
               /\ \A k \in CallIds : ~InProgress(calls[k])
               /\ Len(waves) <= 1
        /\ (probe.pc = "returned" /\ WaveLevelFailure) =>
               /\ ~probe.response.success
               /\ probe.response.hasErrorMessage
               /\ probe.response.results = CompletedResults(waves)

\* planWave threw on a specification without sophistication levels, and the
\* run returned its failure response.
C26_Witness ==
    /\ RunReturned
    /\ PlanWaveThrows(probe.specification)
    /\ ~probe.response.success
    /\ probe.response.hasErrorMessage

\* The batches after the one executeWave call k is at have not been started.
RemainingBatchesNotRun(k) ==
    \A b \in DOMAIN calls[k].workers :
        b > calls[k].bi => \A p \in DOMAIN calls[k].workers[b] : calls[k].workers[b][p] = "new"

\* C27: when executeWave throws after some batches have completed, the
\* remaining batches are not run, the wave is FAILED, and the WaveResults of
\* the completed batches reach the caller: the error carries none, so they
\* are in the wave.
C27_CompletedBatchesPreserved ==
    \A k \in CallIds :
        (calls[k].pc = "thrown" /\ calls[k].results # <<>>) =>
            /\ RemainingBatchesNotRun(k)
            /\ waves[calls[k].wave].status = "FAILED"
            /\ waves[calls[k].wave].hasResults
            /\ waves[calls[k].wave].results = calls[k].results

\* The agent executions coordinateAgents call c has started and that have not
\* settled yet.
Unsettled(c) ==
    { p \in DOMAIN coordinator.calls[c].stage :
        coordinator.calls[c].stage[p] \in {"executing", "finalizing"} }

\* C28: during a coordinateAgents call on a wave, the agent executions
\* started and not yet settled are never more than the wave's maxConcurrency.
C28_CoordinatedWithinMaxConcurrency ==
    coordinator.calls[1].pc = "awaiting" =>
        Cardinality(Unsettled(1)) <= waves[1].maxConcurrency

\* C29: for every specification parseSpecification accepts and every
\* history, the innovationFocus of each assignment planWave produces is one
\* of the specification's innovationDimensions.
C29_FocusIsADimension ==
    Planned =>
        \A i \in DOMAIN PlannedWave.agentAssignments :
            PlannedWave.agentAssignments[i].innovationFocus \in SpecificationDimensions

\* The numbers of the history followed by those of the planned wave.
NumbersAfterWave ==
    [j \in DOMAIN probe.existingIterations |-> probe.existingIterations[j].number]
        \o [i \in DOMAIN PlannedWave.agentAssignments |->
               PlannedWave.agentAssignments[i].iterationNumber]

\* C30: the iteration numbers of a planned wave are, in assignment order,
\* the consecutive integers from one above the number of existing
\* iterations; with a history numbered 1..n, history and wave together are
\* numbered 1, 2, 3, ... without gap or repeat.
C30_IterationNumbersConsecutive ==
    Planned =>
        /\ \A i \in DOMAIN PlannedWave.agentAssignments :
               PlannedWave.agentAssignments[i].iterationNumber
                   = Len(probe.existingIterations) + i
        /\ (\A j \in DOMAIN probe.existingIterations :
                   probe.existingIterations[j].number = j)
               => \A m \in DOMAIN NumbersAfterWave : NumbersAfterWave[m] = m

\* A wave of three or more assignments planned after two iterations.
C30_Witness ==
    /\ Planned
    /\ Len(probe.existingIterations) = 2
    /\ Len(PlannedWave.agentAssignments) >= 3
    /\ PlannedWave.agentAssignments[1].iterationNumber = 3
    /\ PlannedWave.agentAssignments[3].iterationNumber = 5

\* The smallest level number among the levels the request listed.
LowestListedLevel ==
    CHOOSE level \in { probe.listed[j] : j \in DOMAIN probe.listed } :
        \A j \in DOMAIN probe.listed : level <= probe.listed[j]

\* C31: the wave an orchestration runs uses the sophistication level with the
\* smallest level number among the specification's levels, whatever the
\* order in which the request listed them.
C31_LowestLevelFirst ==
    (probe.fn = "orchestrateInfiniteLoop" /\ Len(waves) >= 1) =>
        /\ waves[1].sophisticationLevel = LowestListedLevel
        /\ waves[1].contextBudget
               = EstimateContextRequirement(waves[1].targetIterations, LowestListedLevel)

\* The request lists the levels 3, 1, 2 and its wave runs at level 1.
C31_Witness ==
    /\ RunReturned
    /\ probe.listed = <<3, 1, 2>>
    /\ Len(waves) = 1
    /\ waves[1].sophisticationLevel = 1
    /\ waves[1].status = "COMPLETED"

\* An executeWave call on wave w is between its start and its release.
CallBetweenStartAndRelease(w) ==
    \E k \in CallIds : InProgress(calls[k]) /\ calls[k].wave = w

\* C32: the wave ids in activeWaves are those holding a reservation in
\* waveUsage, and a wave is in activeWaves exactly while an executeWave call
\* on it is between its start and its release.
C32_ActiveIffReservedIffRunning ==
    /\ activeWaves = DOMAIN contextMonitor.waveUsage
    /\ \A w \in DOMAIN waves :
           waves[w].id \in activeWaves <=> CallBetweenStartAndRelease(w)

\* C33: whenever no executeWave call is in progress, usedCapacity is 0 and
\* waveUsage and activeWaves are empty.
C33_IdleLedgerIsEmpty ==
    (\A k \in CallIds : ~InProgress(calls[k])) =>
        /\ contextMonitor.usedCapacity = 0
        /\ DOMAIN contextMonitor.waveUsage = {}
        /\ activeWaves = {}

\* C34: provided every worker call settles, every executeWave call ends with
\* the wave COMPLETED or FAILED, whatever the wave's maxConcurrency and
\* number of assignments.
C34_EveryCallEnds ==
    \A k \in CallIds :
        (calls[k].pc # "idle") ~>
            (Exited(calls[k]) /\ waves[calls[k].wave].status \in {"COMPLETED", "FAILED"})

\* C35: every wave planWave returns has at least one assignment, as many
\* assignments as its targetIterations, and a contextBudget that is not
\* negative, for every mode and every number of existing iterations.
C35_PlannedWaveWellFormed ==
    Planned =>
        /\ Len(PlannedWave.agentAssignments) >= 1
        /\ Len(PlannedWave.agentAssignments) = PlannedWave.targetIterations
        /\ PlannedWave.contextBudget >= 0

\* The greatest common divisor of two naturals.
RECURSIVE Gcd(_, _)
Gcd(a, b) == IF b = 0 THEN a ELSE Gcd(b, a % b)

\* The fraction num / den (den > 0) in lowest terms: two fractions have the
\* same value exactly when their lowest terms are the same.
LowestTerms(num, den) ==
    LET g == Gcd(IF num < 0 THEN -num ELSE num, den)
    IN  [num |-> num \div g, den |-> den \div g]

\* C36: after every reserve and every release, remainingCapacity is
\* totalCapacity - usedCapacity and utilizationPercentage is
\* usedCapacity / totalCapacity * 100.
C36_DerivedFieldsAgree ==
    /\ contextMonitor.remainingCapacity
           = contextMonitor.totalCapacity - contextMonitor.usedCapacity
    /\ LowestTerms(contextMonitor.utilizationPercentage.num,
                   contextMonitor.utilizationPercentage.den)
           = LowestTerms(contextMonitor.usedCapacity * 100, contextMonitor.totalCapacity)

\* One call has released its reservation while another still holds its own.
C36_Witness ==
    /\ \E k \in CallIds : Exited(calls[k])
    /\ \E k \in CallIds : InProgress(calls[k])
    /\ contextMonitor.usedCapacity > 0
    /\ contextMonitor.remainingCapacity
           = contextMonitor.totalCapacity - contextMonitor.usedCapacity

\* C37: success depends only on whether planning and wave execution threw:
\* a run whose wave completes reports success = true, completedWaves = 1 and
\* totalIterations = the number of WaveResults returned, even when some or
\* all of them have success = false.
C37_SuccessIgnoresWorkerFailures ==
    RunReturned =>
        /\ probe.response.success <=> ~WaveLevelFailure
        /\ (Len(waves) = 1 /\ waves[1].status = "COMPLETED") =>
               /\ probe.response.success
               /\ probe.response.completedWaves = 1
               /\ probe.response.totalIterations = Len(waves[1].results)
               /\ probe.response.results = waves[1].results

\* A run of a wave of five whose worker calls all failed reports success.
C37_Witness ==
    /\ RunReturned
    /\ probe.response.success
    /\ probe.response.totalIterations = 5
    /\ \A r \in DOMAIN probe.response.results : ~probe.response.results[r].success

\* C38: in every reachable state of an AgentCoordinator, the counts of
\* getCoordinationMetrics satisfy totalAgents = activeAgents + completedAgents
\* + failedAgents, and no agent id is in activeAgents and in completedAgents
\* at the same time.
C38_CountsAddUpAndMapsDisjoint ==
    /\ AgentCounts(coordinator).totalAgents
           = AgentCounts(coordinator).activeAgents
               + AgentCounts(coordinator).completedAgents
               + AgentCounts(coordinator).failedAgents
    /\ (DOMAIN coordinator.activeAgents) \cap (DOMAIN coordinator.completedAgents) = {}

====
